---- MODULE Spec2Model ----
(***************************************************************************)
(* Model of the ImageMagick MCP server (src/imagemagick_server.py): the    *)
(* tool handler process_image, its helper log_to_file and the tool catalog *)
(* list_tools.                                                             *)
(*                                                                         *)
(* Numbers.  A Python float is a record [c, v]: c = "fin" with v the value *)
(* in tenths (0.5 is 5, 360.0 is 3600), or c = "inf", "ninf", "nan" for    *)
(* the IEEE values float() produces from "inf", "-inf", "nan" or from a    *)
(* JSON number beyond the double range.  Pixel counts are plain integers.  *)
(*                                                                         *)
(* Text.  A path or a format name is a sequence of one-character strings.  *)
(***************************************************************************)
EXTENDS Integers, Sequences, FiniteSets, TLC

VARIABLES pc, req, env, hue, response, escaped, calls, written, access, handles, fs

vars == <<pc, req, env, hue, response, escaped, calls, written, access, handles, fs>>

(***************************************************************************)
(* Python floats                                                           *)
(***************************************************************************)
Fin(v) == [c |-> "fin", v |-> v]
PosInf == [c |-> "inf", v |-> 0]
NegInf == [c |-> "ninf", v |-> 0]
NaN == [c |-> "nan", v |-> 0]

\* a < b, a <= b, a > b for a float a and a finite b given in tenths: every
\* comparison with nan is false
FLt(a, b) == (a.c = "ninf") \/ (a.c = "fin" /\ a.v < b)
FLe(a, b) == (a.c = "ninf") \/ (a.c = "fin" /\ a.v <= b)
FGt(a, b) == (a.c = "inf") \/ (a.c = "fin" /\ a.v > b)

\* a + d for a finite d in tenths: the infinities and nan absorb it
FAdd(a, d) == IF a.c = "fin" THEN Fin(a.v + d) ELSE a

\* integer quotient rounded toward zero, as int() rounds a float
TruncDiv(n, d) == IF n >= 0 THEN n \div d ELSE -((-n) \div d)

(***************************************************************************)
(* Raw argument values.  t = "absent": the key is not in the bag; "null":  *)
(* None; "text": a value float() and int() reject (a non-numeric string, a *)
(* list); "float": a JSON number; "str": a string holding a numeral, whose *)
(* value is f.                                                             *)
(***************************************************************************)
Absent == [t |-> "absent", f |-> Fin(0)]
Null == [t |-> "null", f |-> Fin(0)]
Text == [t |-> "text", f |-> Fin(0)]
Num(v) == [t |-> "float", f |-> Fin(v)]
NumF(f) == [t |-> "float", f |-> f]
Str(v) == [t |-> "str", f |-> Fin(v)]
StrF(f) == [t |-> "str", f |-> f]

IsNone(raw) == raw.t \in {"absent", "null"}

\* float(x): the value, or err for TypeError / ValueError
PyFloat(raw) ==
    IF raw.t \in {"float", "str"}
    THEN [err |-> "none", f |-> raw.f]
    ELSE [err |-> "value", f |-> Fin(0)]

\* int(x): a float is truncated toward zero, int(inf) raises OverflowError and
\* int(nan) ValueError; a string must be an integer literal
PyInt(raw) ==
    CASE raw.t = "float" /\ raw.f.c = "fin" -> [err |-> "none", n |-> TruncDiv(raw.f.v, 10)]
      [] raw.t = "float" /\ raw.f.c = "nan" -> [err |-> "value", n |-> 0]
      [] raw.t = "float" -> [err |-> "overflow", n |-> 0]
      [] raw.t = "str" /\ raw.f.c = "fin" /\ raw.f.v % 10 = 0 -> [err |-> "none", n |-> raw.f.v \div 10]
      [] OTHER -> [err |-> "value", n |-> 0]

\* int(f) of a float already computed
IntOfFloat(f) ==
    CASE f.c = "fin" -> [err |-> "none", n |-> TruncDiv(f.v, 10)]
      [] f.c = "nan" -> [err |-> "value", n |-> 0]
      [] OTHER -> [err |-> "overflow", n |-> 0]

(***************************************************************************)
(* Paths (posixpath)                                                       *)
(***************************************************************************)
RECURSIVE LastIndex(_, _, _)
\* the largest i <= n with s[i] = ch, or 0
LastIndex(s, ch, n) ==
    IF n = 0 THEN 0
    ELSE IF s[n] = ch THEN n ELSE LastIndex(s, ch, n - 1)

Basename(p) == SubSeq(p, LastIndex(p, "/", Len(p)) + 1, Len(p))

RECURSIVE RStripSlash(_)
RStripSlash(s) ==
    IF s # <<>> /\ s[Len(s)] = "/" THEN RStripSlash(SubSeq(s, 1, Len(s) - 1)) ELSE s

\* os.path.dirname: the head up to the last slash, its trailing slashes
\* stripped unless it consists of slashes only
Dirname(p) ==
    LET head == SubSeq(p, 1, LastIndex(p, "/", Len(p)))
    IN  IF RStripSlash(head) = <<>> THEN head ELSE RStripSlash(head)

\* os.path.splitext of a name without slashes: split at the last dot unless
\* only dots precede it
Splitext(b) ==
    LET d == LastIndex(b, ".", Len(b))
    IN  IF d > 0 /\ \E i \in 1..(d - 1) : b[i] # "."
        THEN <<SubSeq(b, 1, d - 1), SubSeq(b, d, Len(b))>>
        ELSE <<b, <<>>>>

\* os.path.join(a, b) for a relative b
Join(a, b) ==
    IF a = <<>> \/ a[Len(a)] = "/" THEN a \o b ELSE a \o <<"/">> \o b

LowerChar(ch) ==
    CASE ch = "J" -> "j" [] ch = "P" -> "p" [] ch = "G" -> "g" [] ch = "N" -> "n"
      [] OTHER -> ch

\* str.lower()
Lower(s) == [i \in 1..Len(s) |-> LowerChar(s[i])]

RECURSIVE LStripDot(_)
LStripDot(s) == IF s # <<>> /\ s[1] = "." THEN LStripDot(Tail(s)) ELSE s

RECURSIVE RStripDot(_)
RStripDot(s) ==
    IF s # <<>> /\ s[Len(s)] = "." THEN RStripDot(SubSeq(s, 1, Len(s) - 1)) ELSE s

\* StripDots that removes the dots at the front only
StripLeadingDots(s) == LStripDot(s)

\* str.strip('.') removes the dots at both ends
StripDots(s) == RStripDot(LStripDot(s))

(***************************************************************************)
(* Requests, files and the environment of one invocation                   *)
(***************************************************************************)
\* image_path and output_format values: t = "absent", "null", "str" (p its
\* characters) or "other" (a non-empty value that is not a string)
NoText == [t |-> "absent", p |-> <<>>]
NullText == [t |-> "null", p |-> <<>>]
OtherText == [t |-> "other", p |-> <<>>]
TextOf(p) == [t |-> "str", p |-> p]

\* Python truthiness of such a value
Truthy(x) == x.t = "other" \/ (x.t = "str" /\ x.p # <<>>)

PathA == <<"d", "/", "a", ".", "p", "n", "g">>
PathB == <<"b", ".", "j", "p", "g">>
PathC == <<"d", "/", "a", ".", "j", "p", "g">>

\* the text {"image_path":"b.jpg","threshold":0.3}: a whole argument set
\* serialized into the image_path field
JsonPath ==
    <<"{", "\"", "i", "m", "a", "g", "e", "_", "p", "a",
      "t", "h", "\"", ":", "\"", "b", ".", "j", "p", "g",
      "\"", ",", "\"", "t", "h", "r", "e", "s", "h", "o",
      "l", "d", "\"", ":", "0", ".", "3", "}">>

\* the paths whose content is tracked across invocations
Paths == {PathA, PathB, PathC}

\* img.width, img.height of the image stored at a path
OriginalSize(p) ==
    CASE p = PathA -> [w |-> 4, h |-> 2]
      [] p = PathB -> [w |-> 11, h |-> 5]
      [] OTHER -> [w |-> 3, h |-> 3]

\* What goes wrong outside the program during one call: at most one step of
\* the try body fails, and the handler's own log call may fail as well.
\*   fault: "none"; "log_entry", "log_final": the log_to_file call of line 42,
\*          or the one just before the return, raises OSError; "open", "op",
\*          "save": that step of the engine raises
\*   hlog:  the log_to_file call of the except handler (line 475) raises
Envs ==
    {e \in [fault : {"none", "log_entry", "log_final", "open", "op", "save"}, hlog : BOOLEAN] :
        e.fault = "none" => ~e.hlog}

NoFault == [fault |-> "none", hlog |-> FALSE]

Block(tag, arg) == [type |-> "text", tag |-> tag, arg |-> arg]

\* the state an invocation leaves when it ends
Outcome(resp, esc, cs, wr, acc, h, files) ==
    [response |-> resp, escaped |-> esc, calls |-> cs, written |-> wr,
     access |-> acc, handles |-> h, fs |-> files]

(***************************************************************************)
(* Leaving process_image                                                   *)
(***************************************************************************)
\* log_to_file opens the log file and appends one line
LogAccess(acc) == acc \cup {"log"}

\* ScopedRelease of a handler that opens the image without a with statement
\* and never closes it
ScopedReleaseSkipped(h) == h

\* the with statement closes the image when its block is left, whichever way
ScopedRelease(h) == h - 1

\* except Exception (lines 473-479): the traceback is logged, then the error
\* block is returned; an OSError of that log_to_file call leaves the function
Raise(e, desc, cs, wr, acc, h, files) ==
    IF e.hlog
    THEN Outcome(<<>>, TRUE, cs, wr, LogAccess(acc), h, files)
    ELSE Outcome(<<Block("Exception", <<desc>>)>>, FALSE, cs, wr, LogAccess(acc), h, files)

\* log_to_file(...) followed by return [TextContent(...)]
Return(e, block, cs, wr, acc, h, files) ==
    IF e.fault = "log_final"
    THEN Raise(e, "OSError", cs, wr, LogAccess(acc), h, files)
    ELSE Outcome(<<block>>, FALSE, cs, wr, LogAccess(acc), h, files)

\* img.save(filename=out): the file at out now holds the processed image
Save(files, out) == IF out \in Paths THEN [files EXCEPT ![out] = "output"] ELSE files

EngineCall(op, f, n) == [op |-> op, f |-> f, n |-> n]

\* with Image(filename=path) as img: <ops>; img.save(filename=out), then the
\* success message.  ops.err # "none" is an exception raised while the
\* arguments of an engine call are computed inside the block.  out = <<>>
\* stands for no save (get_image_info).
WithImage(e, path, ops, out, block, acc, files) ==
    LET acc1 == acc \cup {"open_image"}
    IN  IF e.fault = "open" THEN Raise(e, "engine", <<>>, {}, acc1, 0, files)
        ELSE IF ops.err # "none"
        THEN Raise(e, ops.err, ops.cs, {}, acc1, ScopedRelease(1), files)
        ELSE IF e.fault = "op"
        THEN Raise(e, "engine", ops.cs, {}, acc1, ScopedRelease(1), files)
        ELSE IF out = <<>>
        THEN Return(e, block, ops.cs, {}, acc1 \cup {"getsize"}, ScopedRelease(1), files)
        ELSE IF e.fault = "save"
        THEN Raise(e, "engine", ops.cs, {}, acc1 \cup {"save"}, ScopedRelease(1), files)
        ELSE Return(e, block, ops.cs, {out}, acc1 \cup {"save"}, ScopedRelease(1),
                    Save(files, out))

Ops(cs) == [err |-> "none", cs |-> cs]
OpsError(desc, cs) == [err |-> desc, cs |-> cs]

\* the suffixes of lines 115, 237, 309, 323, 447
BinarizedSuffix == <<"_", "b", "i", "n", "a", "r", "i", "z", "e", "d">>
ResizedSuffix == <<"_", "r", "e", "s", "i", "z", "e", "d">>
BlurredSuffix == <<"_", "b", "l", "u", "r", "r", "e", "d">>
GrayscaleSuffix == <<"_", "g", "r", "a", "y", "s", "c", "a", "l", "e">>
ColorModifiedSuffix ==
    <<"_", "c", "o", "l", "o", "r", "_", "m", "o", "d", "i", "f", "i", "e", "d">>

\* OutputPath without the directory of the input
OutputPathNoDirectory(image_path, suffix) ==
    LET parts == Splitext(Basename(image_path))
    IN  parts[1] \o suffix \o parts[2]

\* output_dir / <stem><suffix><ext> (lines 91-92, 115)
OutputPath(image_path, suffix) ==
    LET parts == Splitext(Basename(image_path))
    IN  Join(Dirname(image_path), parts[1] \o suffix \o parts[2])

(***************************************************************************)
(* Parameter normalization                                                 *)
(***************************************************************************)
ThresholdDefault == 5
QualityDefault == 85
RadiusDefault == 0
SigmaDefault == 30
HueDefault == 0
BrightnessDefault == 1000
SaturationDefault == 1000

\* lines 97-113
NormThreshold(raw) ==
    IF IsNone(raw) THEN Fin(ThresholdDefault)
    ELSE LET c == PyFloat(raw)
         IN  IF c.err # "none" THEN Fin(ThresholdDefault)
             ELSE IF FLt(c.f, 0) \/ FGt(c.f, 10) THEN Fin(ThresholdDefault)
             ELSE c.f

\* lines 154-164: only TypeError and ValueError are caught
NormQuality(raw) ==
    IF IsNone(raw) THEN [err |-> "none", n |-> QualityDefault]
    ELSE LET c == PyInt(raw)
         IN  CASE c.err = "value" -> [err |-> "none", n |-> QualityDefault]
               [] c.err = "overflow" -> [err |-> "OverflowError", n |-> 0]
               [] c.n < 1 -> [err |-> "none", n |-> 1]
               [] c.n > 100 -> [err |-> "none", n |-> 100]
               [] OTHER -> [err |-> "none", n |-> c.n]

\* lines 293-307: one try block around both conversions
NormBlur(radius, sigma) ==
    LET r == IF IsNone(radius) THEN [err |-> "none", f |-> Fin(RadiusDefault)] ELSE PyFloat(radius)
        s == IF IsNone(sigma) THEN [err |-> "none", f |-> Fin(SigmaDefault)] ELSE PyFloat(sigma)
    IN  IF r.err # "none" \/ s.err # "none"
        THEN [radius |-> Fin(RadiusDefault), sigma |-> Fin(SigmaDefault)]
        ELSE [radius |-> IF FLt(r.f, 0) THEN Fin(RadiusDefault) ELSE r.f,
              sigma |-> IF FLt(s.f, 0) THEN Fin(SigmaDefault) ELSE s.f]

\* lines 389, 409, 415-417: the value the normalization loop starts from
HueStart(raw) ==
    IF IsNone(raw) THEN Fin(HueDefault)
    ELSE LET c == PyFloat(raw)
         IN  IF c.err # "none" THEN Fin(HueDefault) ELSE c.f

\* lines 411-414: the loop conditions and one pass of the loop body
HueLoopCond(h) == FLt(h, -3600) \/ FGt(h, 3600)
HueLoopBody(h) ==
    IF FLt(h, -3600) THEN FAdd(h, 3600)
    ELSE IF FGt(h, 3600) THEN FAdd(h, -3600)
    ELSE h

\* lines 390, 420-430
NormBrightness(raw) ==
    IF IsNone(raw) THEN Fin(BrightnessDefault)
    ELSE LET c == PyFloat(raw)
         IN  IF c.err # "none" THEN Fin(BrightnessDefault)
             ELSE IF FLt(c.f, 0) THEN Fin(0)
             ELSE IF FGt(c.f, 2000) THEN Fin(2000)
             ELSE c.f

\* lines 391, 433-443
NormSaturation(raw) ==
    IF IsNone(raw) THEN Fin(SaturationDefault)
    ELSE LET c == PyFloat(raw)
         IN  IF c.err # "none" THEN Fin(SaturationDefault)
             ELSE IF FLt(c.f, 0) THEN Fin(0)
             ELSE IF FGt(c.f, 2000) THEN Fin(2000)
             ELSE c.f

(***************************************************************************)
(* resize_image                                                            *)
(***************************************************************************)
Unset == [set |-> FALSE, f |-> Fin(0)]
SetTo(f) == [set |-> TRUE, f |-> f]

\* ResizeParams with width and height converted before scale is looked at
ResizeParamsDimensionsFirst(width, height, scale) ==
    LET bad == [status |-> "invalid", width |-> Unset, height |-> Unset, scale |-> Unset]
        cw == IF IsNone(width) THEN [err |-> "none", f |-> Fin(0)] ELSE PyFloat(width)
        ch == IF IsNone(height) THEN [err |-> "none", f |-> Fin(0)] ELSE PyFloat(height)
        cs == IF IsNone(scale) THEN [err |-> "none", f |-> Fin(0)] ELSE PyFloat(scale)
        w == IF IsNone(width) \/ FLe(cw.f, 0) THEN Unset ELSE SetTo(cw.f)
        h == IF IsNone(height) \/ FLe(ch.f, 0) THEN Unset ELSE SetTo(ch.f)
    IN  IF cw.err # "none" \/ ch.err # "none" \/ cs.err # "none" THEN bad
        ELSE IF ~IsNone(scale)
        THEN [status |-> "ok", width |-> Unset, height |-> Unset,
              scale |-> SetTo(IF FLe(cs.f, 0) THEN Fin(10) ELSE cs.f)]
        ELSE IF ~w.set /\ ~h.set
        THEN [status |-> "none", width |-> Unset, height |-> Unset, scale |-> Unset]
        ELSE [status |-> "ok", width |-> w, height |-> h, scale |-> Unset]

\* lines 200-235: status "ok", "none" (No resize parameters specified) or
\* "invalid" (a conversion raised TypeError / ValueError)
ResizeParams(width, height, scale) ==
    LET bad == [status |-> "invalid", width |-> Unset, height |-> Unset, scale |-> Unset]
    IN  IF ~IsNone(scale)
        THEN LET c == PyFloat(scale)
             IN  IF c.err # "none" THEN bad
                 ELSE [status |-> "ok", width |-> Unset, height |-> Unset,
                       scale |-> SetTo(IF FLe(c.f, 0) THEN Fin(10) ELSE c.f)]
        ELSE LET cw == IF IsNone(width) THEN [err |-> "none", f |-> Fin(0)] ELSE PyFloat(width)
                 ch == IF IsNone(height) THEN [err |-> "none", f |-> Fin(0)] ELSE PyFloat(height)
                 w == IF IsNone(width) \/ FLe(cw.f, 0) THEN Unset ELSE SetTo(cw.f)
                 h == IF IsNone(height) \/ FLe(ch.f, 0) THEN Unset ELSE SetTo(ch.f)
             IN  IF cw.err # "none" \/ ch.err # "none" THEN bad
                 ELSE IF ~w.set /\ ~h.set
                 THEN [status |-> "none", width |-> Unset, height |-> Unset, scale |-> Unset]
                 ELSE [status |-> "ok", width |-> w, height |-> h, scale |-> Unset]

\* the (value in tenths, numerator, denominator) triples of the model's
\* inputs at which the double product value * (numerator / denominator)
\* falls just below the exact integer quotient: 6.6 * (5 / 11) is
\* 2.9999999999999996
FloatShortfall == {<<66, 5, 11>>}

\* AspectScale with round() in place of int()
AspectScaleRounding(f, num, den) ==
    IF f.c = "fin"
    THEN [err |-> "none", n |-> (2 * f.v * num + 10 * den) \div (20 * den)]
    ELSE IntOfFloat(f)

\* int(f * (num / den)) with f a float and num, den pixel counts
AspectScale(f, num, den) ==
    IF f.c = "fin"
    THEN [err |-> "none",
          n |-> TruncDiv(f.v * num, 10 * den)
                - (IF <<f.v, num, den>> \in FloatShortfall THEN 1 ELSE 0)]
    ELSE IntOfFloat(f)

\* int(pixels * f)
ScalePixels(pixels, f) ==
    IF f.c = "fin" THEN [err |-> "none", n |-> TruncDiv(pixels * f.v, 10)] ELSE IntOfFloat(f)

ErrorName(err) == IF err = "overflow" THEN "OverflowError" ELSE "ValueError"

\* lines 241-268: the size img.resize is called with, or the exception
\* raised by int() while it is computed
ResizeTarget(p, size) ==
    LET size2(a, b) ==
            IF a.err # "none" THEN [err |-> ErrorName(a.err), w |-> 0, h |-> 0]
            ELSE IF b.err # "none" THEN [err |-> ErrorName(b.err), w |-> 0, h |-> 0]
            ELSE [err |-> "none", w |-> a.n, h |-> b.n]
    IN  IF p.scale.set
        THEN size2(ScalePixels(size.w, p.scale.f), ScalePixels(size.h, p.scale.f))
        ELSE IF p.width.set /\ p.height.set
        THEN size2(IntOfFloat(p.width.f), IntOfFloat(p.height.f))
        ELSE IF p.width.set
        THEN size2(IntOfFloat(p.width.f), AspectScale(p.width.f, size.h, size.w))
        ELSE size2(AspectScale(p.height.f, size.w, size.h), IntOfFloat(p.height.f))

(***************************************************************************)
(* process_image                                                           *)
(***************************************************************************)
\* "key" in arguments, for a non-empty dict (lines 74, 98, 135, 187, 282, 393)
Arg(r, key) == IF r.bag = "dict" THEN r[key] ELSE Absent

\* lines 73-78
ImagePath(r) == IF r.bag = "dict" THEN r.image_path ELSE NoText

\* os.path.exists
Exists(files, p) == p \in Paths /\ files[p] # "none"

\* the names of the message of line 470
ListedTools ==
    <<"binarize_image", "blur_image", "convert_image_format", "get_image_info",
      "grayscale_image", "modify_colors", "resize_image">>

\* lines 95-127
Binarize(r, e, acc, files) ==
    LET path == ImagePath(r).p
        out == OutputPath(path, BinarizedSuffix)
        ops == Ops(<<EngineCall("type_grayscale", <<>>, <<>>),
                     EngineCall("threshold", <<NormThreshold(Arg(r, "threshold"))>>, <<>>)>>)
    IN  WithImage(e, path, ops, out, Block("Binarized", out), acc, files)

\* lines 130-178
ConvertFormat(r, e, acc, files) ==
    LET path == ImagePath(r).p
        fmt == IF r.bag = "dict" THEN r.output_format ELSE NoText
        norm == StripDots(Lower(fmt.p))
        q == NormQuality(Arg(r, "quality"))
        parts == Splitext(Basename(path))
        out == Join(Dirname(path), parts[1] \o <<".">> \o norm)
    IN  IF ~Truthy(fmt) THEN Return(e, Block("NoFormat", <<>>), <<>>, {}, acc, 0, files)
        ELSE IF fmt.t = "other" THEN Raise(e, "AttributeError", <<>>, {}, acc, 0, files)
        ELSE IF q.err # "none" THEN Raise(e, q.err, <<>>, {}, acc, 0, files)
        ELSE WithImage(e, path, Ops(<<EngineCall("compression_quality", <<>>, <<q.n>>)>>),
                       out, Block("Converted", out), acc, files)

\* lines 181-274
Resize(r, e, acc, files) ==
    LET path == ImagePath(r).p
        p == ResizeParams(Arg(r, "width"), Arg(r, "height"), Arg(r, "scale"))
        t == ResizeTarget(p, OriginalSize(path))
        out == OutputPath(path, ResizedSuffix)
        ops == IF t.err # "none" THEN OpsError(t.err, <<>>)
               ELSE Ops(<<EngineCall("resize", <<>>, <<t.w, t.h>>)>>)
    IN  CASE p.status = "none" ->
               \* lines 231-232
               Return(e, Block("NoResize", <<>>), <<>>, {}, acc, 0, files)
          [] p.status = "invalid" ->
               \* lines 233-235
               Return(e, Block("InvalidResize", <<>>), <<>>, {}, acc, 0, files)
          [] OTHER -> WithImage(e, path, ops, out, Block("Resized", out), acc, files)

\* lines 277-319
Blur(r, e, acc, files) ==
    LET path == ImagePath(r).p
        b == NormBlur(Arg(r, "radius"), Arg(r, "sigma"))
        out == OutputPath(path, BlurredSuffix)
    IN  WithImage(e, path, Ops(<<EngineCall("blur", <<b.radius, b.sigma>>, <<>>)>>),
                  out, Block("Blurred", out), acc, files)

\* lines 322-333
Grayscale(r, e, acc, files) ==
    LET path == ImagePath(r).p
        out == OutputPath(path, GrayscaleSuffix)
    IN  WithImage(e, path, Ops(<<EngineCall("type_grayscale", <<>>, <<>>)>>),
                  out, Block("Grayscale", out), acc, files)

\* lines 336-384
GetInfo(r, e, acc, files) ==
    LET path == ImagePath(r).p
    IN  WithImage(e, path, Ops(<<EngineCall("metadata", <<>>, <<>>)>>),
                  <<>>, Block("Info", path), acc, files)

\* lines 419-466, entered when the hue loop is left with the value h; the hue
\* argument 100 + h * 100 / 360 is kept in thirty-sixths of a tenth
ModifyColors(r, h, e, acc, files) ==
    LET path == ImagePath(r).p
        out == OutputPath(path, ColorModifiedSuffix)
        hueArg == IF h.c = "fin" THEN Fin(36000 + h.v * 100) ELSE h
    IN  WithImage(e, path,
                  Ops(<<EngineCall("modulate",
                                   <<NormBrightness(Arg(r, "brightness")),
                                     NormSaturation(Arg(r, "saturation")), hueArg>>, <<>>)>>),
                  out, Block("ColorModified", out), acc, files)

\* lines 468-472
UnknownTool(r, e, acc, files) ==
    Return(e, Block("UnknownTool", ListedTools), <<>>, {}, acc, 0, files)

\* lines 41-88: the outcome when the call ends before a branch is taken, and
\* whether it does
Validate(r, e, files) ==
    LET ip == ImagePath(r)
        acc == LogAccess({})
    IN  IF e.fault = "log_entry"
        THEN [done |-> TRUE, out |-> Raise(e, "OSError", <<>>, {}, acc, 0, files)]
        ELSE IF ~Truthy(ip)
        THEN [done |-> TRUE, out |-> Return(e, Block("NoImagePath", <<>>), <<>>, {}, acc, 0, files)]
        ELSE IF ip.t = "other"
        THEN [done |-> TRUE,
              out |-> Raise(e, "TypeError", <<>>, {}, acc \cup {"exists"}, 0, files)]
        ELSE IF ~Exists(files, ip.p)
        THEN [done |-> TRUE,
              out |-> Return(e, Block("NotFound", ip.p), <<>>, {}, acc \cup {"exists"}, 0, files)]
        ELSE [done |-> FALSE, out |-> Outcome(<<>>, FALSE, <<>>, {}, acc \cup {"exists"}, 0, files)]

\* lines 94-472: the branch taken for the name (modify_colors is entered
\* through its hue loop)
Dispatch(r, e, acc, files) ==
    CASE r.name = "binarize_image" -> Binarize(r, e, acc, files)
      [] r.name = "convert_image_format" -> ConvertFormat(r, e, acc, files)
      [] r.name = "resize_image" -> Resize(r, e, acc, files)
      [] r.name = "blur_image" -> Blur(r, e, acc, files)
      [] r.name = "grayscale_image" -> Grayscale(r, e, acc, files)
      [] r.name = "get_image_info" -> GetInfo(r, e, acc, files)
      [] OTHER -> UnknownTool(r, e, acc, files)

(***************************************************************************)
(* list_tools                                                              *)
(***************************************************************************)
\* one descriptor of lines 485-636: its name, the "required" list of its
\* inputSchema and the "default" of each property that has one (None is Null)
Tool(name, required, defaults) == [name |-> name, required |-> required, defaults |-> defaults]

\* ListTools with the default of threshold advertised as 0.0
ListToolsDrifted ==
    <<Tool("binarize_image", {"image_path"}, {<<"threshold", Num(0)>>}),
      Tool("blur_image", {"image_path"}, {<<"radius", Num(0)>>, <<"sigma", Num(30)>>}),
      Tool("convert_image_format", {"image_path", "output_format"}, {<<"quality", Num(850)>>}),
      Tool("modify_colors", {"image_path"},
           {<<"hue_shift", Num(0)>>, <<"brightness", Num(1000)>>, <<"saturation", Num(1000)>>}),
      Tool("resize_image", {"image_path"},
           {<<"width", Null>>, <<"height", Null>>, <<"scale", Null>>}),
      Tool("grayscale_image", {"image_path"}, {}),
      Tool("get_image_info", {"image_path"}, {})>>

\* lines 484-637: the list list_tools returns
ListTools ==
    <<Tool("binarize_image", {"image_path"}, {<<"threshold", Num(5)>>}),
      Tool("blur_image", {"image_path"}, {<<"radius", Num(0)>>, <<"sigma", Num(30)>>}),
      Tool("convert_image_format", {"image_path", "output_format"}, {<<"quality", Num(850)>>}),
      Tool("modify_colors", {"image_path"},
           {<<"hue_shift", Num(0)>>, <<"brightness", Num(1000)>>, <<"saturation", Num(1000)>>}),
      Tool("resize_image", {"image_path"},
           {<<"width", Null>>, <<"height", Null>>, <<"scale", Null>>}),
      Tool("grayscale_image", {"image_path"}, {}),
      Tool("get_image_info", {"image_path"}, {})>>

(***************************************************************************)
(* The inputs the model draws from                                         *)
(***************************************************************************)
\* a sub-bag one level inside the argument bag: the values it holds for
\* threshold and brightness (no line of process_image reads it)
NoNested == [threshold |-> Absent, brightness |-> Absent]

NoRequest ==
    [name |-> "", bag |-> "none", image_path |-> NoText, output_format |-> NoText,
     threshold |-> Absent, quality |-> Absent, width |-> Absent, height |-> Absent,
     scale |-> Absent, radius |-> Absent, sigma |-> Absent, hue_shift |-> Absent,
     brightness |-> Absent, saturation |-> Absent, nested |-> NoNested]

Call(name, ip) == [NoRequest EXCEPT !.name = name, !.bag = "dict", !.image_path = ip]

Names ==
    {"binarize_image", "blur_image", "convert_image_format", "get_image_info",
     "grayscale_image", "modify_colors", "resize_image", "sharpen_image"}

ImagePaths ==
    {NoText, NullText, OtherText, TextOf(<<>>), TextOf(PathA), TextOf(PathB), TextOf(PathC)}

GoodPaths == {TextOf(PathA), TextOf(PathB)}

Formats ==
    {NoText, NullText, OtherText, TextOf(<<>>), TextOf(<<"p", "n", "g">>),
     TextOf(<<"J", "P", "G", ".">>), TextOf(<<".", "j", "p", "g">>)}

ThresholdValues ==
    {Absent, Null, Text, Num(-1), Num(0), Num(3), Num(10), Num(11), Str(7),
     NumF(PosInf), NumF(NegInf), StrF(NaN)}

QualityValues ==
    {Absent, Null, Text, Num(-50), Num(0), Num(10), Num(505), Num(1000), Num(1010),
     Str(500), Str(505), NumF(PosInf), NumF(NaN)}

\* the largest whole pixel width asked for, and the largest number of full
\* turns by which a hue_shift lies beyond 360 degrees
MaxWidth == 4
MaxTurns == 2

WidthValues ==
    {Absent, Null, Text, Num(0), Num(5), Num(66), StrF(NaN), NumF(PosInf)}
    \cup {Num(10 * k) : k \in 1..MaxWidth}
HeightValues == {Absent, Null, Text, Num(-10), Num(25), Num(30)}
ScaleValues == {Absent, Null, Text, Num(-10), Num(0), Num(5), Num(15), NumF(PosInf), StrF(NaN)}

RadiusValues == {Absent, Null, Text, Num(-10), Num(0), Num(20), StrF(NaN)}
SigmaValues == {Absent, Null, Text, Num(-5), Num(0), Num(15), NumF(PosInf)}

HueValues ==
    {Absent, Null, Text, Num(-3610), Num(-3600), Num(0), Num(1800), Num(3600),
     NumF(PosInf), NumF(NegInf), StrF(NaN)}
    \cup {Num(3600 * k + 400) : k \in 1..MaxTurns}
    \cup {Num(-3600 * k - 100) : k \in 1..MaxTurns}
BrightnessValues ==
    {Absent, Null, Text, Num(-10), Num(0), Num(500), Num(2000), Num(2010),
     NumF(PosInf), StrF(NaN)}
SaturationValues == {Absent, Text, Num(-5), Num(1500), Num(2500), NumF(NegInf), NumF(NaN)}

\* every name with every kind of image_path, and with no argument bag at all
PathRequests ==
    {Call(n, ip) : n \in Names, ip \in ImagePaths}
    \cup {[NoRequest EXCEPT !.name = n] : n \in Names}
    \cup {[Call("resize_image", ip) EXCEPT !.scale = Num(0)] : ip \in ImagePaths}
    \cup {[Call("sharpen_image", ip) EXCEPT !.threshold = Num(3)] : ip \in ImagePaths}

BinarizeRequests ==
    {[Call("binarize_image", ip) EXCEPT !.threshold = t] :
        ip \in GoodPaths, t \in ThresholdValues}

ConvertRequests ==
    {[Call("convert_image_format", TextOf(PathA)) EXCEPT !.output_format = f, !.quality = q] :
        f \in Formats, q \in QualityValues}
    \cup {[Call("convert_image_format", TextOf(PathB)) EXCEPT !.output_format = f] :
            f \in Formats}

\* width and height in every combination without a scale, every scale with
\* some widths and heights, and each dimension alone on the second image
ResizeRequests ==
    {[Call("resize_image", TextOf(PathA)) EXCEPT !.width = w, !.height = h, !.scale = s] :
        w \in WidthValues, h \in HeightValues, s \in {Absent, Null}}
    \cup
    {[Call("resize_image", TextOf(PathA)) EXCEPT !.width = w, !.height = h, !.scale = s] :
        w \in {Absent, Text, Num(0), Num(40)}, h \in {Absent, Text, Num(-10), Num(25)},
        s \in ScaleValues}
    \cup
    {[Call("resize_image", TextOf(PathB)) EXCEPT !.width = w] : w \in WidthValues}
    \cup
    {[Call("resize_image", TextOf(PathB)) EXCEPT !.height = h] : h \in HeightValues}

BlurRequests ==
    {[Call("blur_image", TextOf(PathA)) EXCEPT !.radius = x, !.sigma = y] :
        x \in RadiusValues, y \in SigmaValues}

\* every hue_shift with some brightness and saturation values, and every
\* brightness and saturation with some hue_shift values
ModifyRequests ==
    {[Call("modify_colors", ip) EXCEPT !.hue_shift = x, !.brightness = b] :
        ip \in GoodPaths, x \in HueValues, b \in {Absent, Num(500)}}
    \cup
    {[Call("modify_colors", TextOf(PathA)) EXCEPT
            !.hue_shift = x, !.brightness = b, !.saturation = y] :
        x \in {Absent, Text}, b \in BrightnessValues, y \in SaturationValues}

\* a parameter held by a nested sub-bag, with and without the direct field,
\* and an argument set serialized into image_path
SourceRequests ==
    {[Call("binarize_image", TextOf(PathB)) EXCEPT
            !.threshold = t, !.nested = [NoNested EXCEPT !.threshold = Num(3)]] :
        t \in {Absent, Num(7)}}
    \cup
    {[Call("binarize_image", TextOf(JsonPath)) EXCEPT !.threshold = t] : t \in {Absent, Num(7)}}
    \cup
    {[Call("modify_colors", TextOf(PathB)) EXCEPT
            !.nested = [NoNested EXCEPT !.brightness = Num(500)]]}

Requests ==
    PathRequests \cup BinarizeRequests \cup ConvertRequests \cup ResizeRequests
    \cup BlurRequests \cup ModifyRequests \cup SourceRequests

(***************************************************************************)
(* The state machine: the server handles one call at a time                *)
(***************************************************************************)
Init ==
    /\ pc = "idle"
    /\ req = NoRequest
    /\ env = NoFault
    /\ hue = Fin(0)
    /\ response = <<>>
    /\ escaped = FALSE
    /\ calls = <<>>
    /\ written = {}
    /\ access = {}
    /\ handles = 0
    /\ fs = [p \in Paths |-> IF p = PathC THEN "none" ELSE "original"]

\* process_image has returned or raised with outcome o
Ends(o) ==
    /\ pc' = "returned"
    /\ response' = o.response
    /\ escaped' = o.escaped
    /\ calls' = o.calls
    /\ written' = o.written
    /\ access' = o.access
    /\ handles' = o.handles
    /\ fs' = o.fs

\* process_image(name, arguments) is called: lines 41-479, up to the hue
\* loop of modify_colors when that is reached
CallTool(r, e) ==
    /\ pc = "idle"
    /\ req' = r
    /\ LET v == Validate(r, e, fs)
       IN  IF v.done THEN Ends(v.out) /\ env' = e /\ hue' = hue
           ELSE IF r.name = "modify_colors"
           THEN /\ pc' = "hue_loop"
                /\ hue' = HueStart(Arg(r, "hue_shift"))
                /\ access' = v.out.access
                /\ UNCHANGED <<env, response, escaped, calls, written, handles, fs>>
           ELSE Ends(Dispatch(r, e, v.out.access, fs)) /\ env' = e /\ hue' = hue

\* one pass of the loops of lines 411-414
HueLoopStep ==
    /\ pc = "hue_loop"
    /\ HueLoopCond(hue)
    /\ hue' = HueLoopBody(hue)
    /\ UNCHANGED <<pc, req, env, response, escaped, calls, written, access, handles, fs>>

\* the loops are left: lines 419-466
FinishModifyColors(e) ==
    /\ pc = "hue_loop"
    /\ ~HueLoopCond(hue)
    /\ Ends(ModifyColors(req, hue, e, access, fs))
    /\ env' = e
    /\ UNCHANGED <<req, hue>>

\* list_tools() is called: it returns the catalog and touches nothing else
ListToolsCall ==
    /\ pc = "idle"
    /\ pc' = "listed"
    /\ response' = ListTools
    /\ UNCHANGED <<req, env, hue, escaped, calls, written, access, handles, fs>>

\* the transport takes the result; the server waits for the next call
Deliver ==
    /\ pc \in {"returned", "listed"}
    /\ pc' = "idle"
    /\ req' = NoRequest
    /\ env' = NoFault
    /\ hue' = Fin(0)
    /\ response' = <<>>
    /\ escaped' = FALSE
    /\ calls' = <<>>
    /\ written' = {}
    /\ access' = {}
    /\ UNCHANGED <<handles, fs>>

Next ==
    \/ \E r \in Requests, e \in Envs : CallTool(r, e)
    \/ HueLoopStep
    \/ \E e \in Envs : e.fault # "log_entry" /\ FinishModifyColors(e)
    \/ ListToolsCall
    \/ Deliver

Spec == Init /\ [][Next]_vars

(***************************************************************************)
(* Properties                                                              *)
(***************************************************************************)
Returned == pc = "returned"

\* the seven operation names of the specification
SevenNames ==
    {"binarize_image", "blur_image", "convert_image_format", "grayscale_image",
     "get_image_info", "modify_colors", "resize_image"}

\* the image_path of the call names a file that exists.  A call that ends in
\* the validation of lines 81-88 writes nothing, and no call removes a file,
\* so the file exists after the call iff it did before.
PathExists == ImagePath(req).t = "str" /\ Exists(fs, ImagePath(req).p)

\* C1: a call without image_path returns exactly "Error: No image path
\* provided" and accesses no file at all; a call whose image_path names no
\* existing file returns "Error: Image file not found at <path>"; neither
\* opens an image nor writes a file.  Stated here for calls during which
\* nothing outside the program fails.
C1_NoPathNoFilesystem ==
    (Returned /\ env = NoFault) =>
        LET ip == ImagePath(req)
        IN  /\ ~Truthy(ip) =>
                  /\ response = <<Block("NoImagePath", <<>>)>>
                  /\ access = {}
                  /\ calls = <<>> /\ written = {}
            /\ (Truthy(ip) /\ ~PathExists) =>
                  /\ response = <<Block("NotFound", ip.p)>>
                  /\ "open_image" \notin access
                  /\ calls = <<>> /\ written = {}

\* C2: every call whose name is none of the seven returns one error block
\* that lists the seven names, and writes no file.  Stated here for calls
\* during which nothing outside the program fails.
C2_UnknownNameListsTools ==
    (Returned /\ env = NoFault /\ req.name \notin SevenNames) =>
        /\ Len(response) = 1
        /\ response[1].tag = "UnknownTool"
        /\ {response[1].arg[i] : i \in 1..Len(response[1].arg)} = SevenNames
        /\ written = {}

\* the blocks that announce a result rather than an error
SuccessTags ==
    {"Binarized", "Converted", "Resized", "Blurred", "Grayscale", "Info", "ColorModified"}

\* C3: every call returns exactly one text block, and no exception leaves
\* process_image, whatever fails during the call.
C3_AlwaysOneTextBlock ==
    Returned =>
        /\ ~escaped
        /\ Len(response) = 1
        /\ response[1].type = "text"
        /\ (env.fault # "none" => response[1].tag \notin SuccessTags)

\* the engine calls of the finished invocation with the given operation
CallsOf(op) == {calls[i] : i \in {j \in 1..Len(calls) : calls[j].op = op}}

\* the raw value is a number or a string holding a numeral
Numeric(raw) == raw.t \in {"float", "str"}

Within(f, lo, hi) == f.c = "fin" /\ lo <= f.v /\ f.v <= hi

\* C4: the threshold handed to the engine is 0.5 for a numeric threshold
\* below 0.0 or above 1.0 and for an absent, null or non-numeric one, is the
\* given value when that lies in [0.0, 1.0], and so always lies in [0.0, 1.0].
C4_ThresholdInUnitInterval ==
    (Returned /\ req.name = "binarize_image") =>
        \A c \in CallsOf("threshold") :
            LET raw == Arg(req, "threshold")
                t == c.f[1]
            IN  /\ Within(t, 0, 10)
                /\ (Numeric(raw) /\ (FLt(raw.f, 0) \/ FGt(raw.f, 10))) => t = Fin(5)
                /\ (Numeric(raw) /\ Within(raw.f, 0, 10)) => t = raw.f
                /\ ~Numeric(raw) => t = Fin(5)

\* C5: for every numeric hue_shift the +360 / -360 loop ends (a pass of the
\* loop never leaves the value where it was), the value it ends with lies
\* in [-360, 360] and is congruent to the input modulo 720, and an input in
\* [-360, 360] is left unchanged.
C5_HueLoopEndsInRange ==
    LET raw == Arg(req, "hue_shift")
    IN  (req.name = "modify_colors" /\ Numeric(raw)) =>
            /\ (pc = "hue_loop" /\ HueLoopCond(hue)) => HueLoopBody(hue) # hue
            /\ (Returned /\ CallsOf("modulate") # {}) =>
                  /\ Within(hue, -3600, 3600)
                  /\ raw.f.c = "fin" /\ (hue.v - raw.f.v) % 7200 = 0
                  /\ Within(raw.f, -3600, 3600) => hue = raw.f

\* the value C6 expects for a brightness or saturation
ClampedLevel(raw, t) ==
    /\ Within(t, 0, 2000)
    /\ (Numeric(raw) /\ FLt(raw.f, 0)) => t = Fin(0)
    /\ (Numeric(raw) /\ FGt(raw.f, 2000)) => t = Fin(2000)
    /\ (Numeric(raw) /\ Within(raw.f, 0, 2000)) => t = raw.f

\* C6: a numeric brightness or saturation below 0 is handed to modulate as
\* 0, one above 200 as 200, one in [0, 200] unchanged; the two values handed
\* to modulate always lie in [0, 200].
C6_LevelsClamped ==
    (Returned /\ req.name = "modify_colors") =>
        \A c \in CallsOf("modulate") :
            /\ ClampedLevel(Arg(req, "brightness"), c.f[1])
            /\ ClampedLevel(Arg(req, "saturation"), c.f[2])

\* the call is a convert_image_format call that passed the validation of
\* the path and of the format
ConvertAccepted ==
    /\ req.name = "convert_image_format" /\ PathExists
    /\ req.output_format.t = "str" /\ req.output_format.p # <<>>

\* C7: the quality handed to the engine is an integer in [1, 100]: 1 for a
\* number below 1, 100 for a number above 100, the number itself inside the
\* range, 85 when absent, null or non-numeric; and the quality never makes
\* the call fail.  Stated here for calls during which nothing outside the
\* program fails.
C7_QualityClamped ==
    (Returned /\ env = NoFault /\ ConvertAccepted) =>
        LET raw == Arg(req, "quality")
        IN  /\ Len(response) = 1 /\ response[1].tag = "Converted"
            /\ \A c \in CallsOf("compression_quality") :
                  /\ c.n[1] \in 1..100
                  /\ (raw.t = "float" /\ FLt(raw.f, 10)) => c.n[1] = 1
                  /\ (raw.t = "float" /\ FGt(raw.f, 1000)) => c.n[1] = 100
                  /\ (raw.t = "float" /\ Within(raw.f, 10, 1000)) =>
                        c.n[1] = TruncDiv(raw.f.v, 10)
                  /\ (IsNone(raw) \/ raw.t = "text") => c.n[1] = 85

\* the raw value is absent, null or not a positive number
Unusable(raw) == IsNone(raw) \/ ~Numeric(raw) \/ ~FGt(raw.f, 0)

\* C8: a resize_image call on an existing image in which none of width,
\* height and scale is a positive number returns "Error: No resize
\* parameters specified", calls no resize and writes no file.  Stated here
\* for calls during which nothing outside the program fails.
C8_NoUsableResizeParameter ==
    (/\ Returned /\ env = NoFault /\ req.name = "resize_image" /\ PathExists
     /\ Unusable(Arg(req, "width")) /\ Unusable(Arg(req, "height"))
     /\ Unusable(Arg(req, "scale"))) =>
        /\ response = <<Block("NoResize", <<>>)>>
        /\ calls = <<>>
        /\ written = {}

\* the call is a resize_image call on an existing image
ResizeAccepted == req.name = "resize_image" /\ PathExists

\* only width, or only height, is given, and it is a positive number
OnlyWidth ==
    /\ IsNone(Arg(req, "scale")) /\ IsNone(Arg(req, "height"))
    /\ Numeric(Arg(req, "width")) /\ FGt(Arg(req, "width").f, 0)
OnlyHeight ==
    /\ IsNone(Arg(req, "scale")) /\ IsNone(Arg(req, "width"))
    /\ Numeric(Arg(req, "height")) /\ FGt(Arg(req, "height").f, 0)

\* n / d rounded to the nearest integer, for n >= 0
Rounded(n, d) == (2 * n + d) \div (2 * d)

\* k is n / d with the fraction dropped, or one less than an exact quotient
\* (the double product may fall just below the integer)
Truncated(k, n, d) == (k * d <= n /\ n < (k + 1) * d) \/ n = (k + 1) * d

\* the engine steps are reached and the arguments of resize are computed
EngineReached == env.fault \in {"none", "log_final", "op", "save"}

\* C9 as stated: with only a positive width given, resize is called with
\* height = round(width * original_height / original_width).
C9_HeightRounded ==
    (Returned /\ ResizeAccepted /\ OnlyWidth) =>
        \A c \in CallsOf("resize") :
            c.n[2] = Rounded(Arg(req, "width").f.v * OriginalSize(ImagePath(req).p).h,
                             10 * OriginalSize(ImagePath(req).p).w)

\* C9 as amended: with only a positive width given, resize is called with
\* int(width) and with width * original_height / original_width truncated
\* toward zero (one less when the double product of an exact quotient falls
\* short), and symmetrically with only a positive height; the call is made
\* whenever the value is finite and the engine steps are reached.
C9_AspectTruncated ==
    (Returned /\ ResizeAccepted) =>
        LET size == OriginalSize(ImagePath(req).p)
            w == Arg(req, "width").f
            h == Arg(req, "height").f
        IN  /\ OnlyWidth =>
                  /\ \A c \in CallsOf("resize") :
                        /\ w.c = "fin"
                        /\ c.n[1] = w.v \div 10
                        /\ Truncated(c.n[2], w.v * size.h, 10 * size.w)
                  /\ (w.c = "fin" /\ EngineReached) => CallsOf("resize") # {}
            /\ OnlyHeight =>
                  /\ \A c \in CallsOf("resize") :
                        /\ h.c = "fin"
                        /\ c.n[2] = h.v \div 10
                        /\ Truncated(c.n[1], h.v * size.w, 10 * size.h)
                  /\ (h.c = "fin" /\ EngineReached) => CallsOf("resize") # {}

\* a call with only a width whose truncated height differs from the rounded
\* one has been served
C9_Witness ==
    /\ Returned /\ ResizeAccepted /\ OnlyWidth /\ env = NoFault
    /\ Len(response) = 1 /\ response[1].tag = "Resized"
    /\ \E c \in CallsOf("resize") :
          c.n[2] # Rounded(Arg(req, "width").f.v * OriginalSize(ImagePath(req).p).h,
                           10 * OriginalSize(ImagePath(req).p).w)

\* scale is present and a positive number
ScaleValid == Numeric(Arg(req, "scale")) /\ FGt(Arg(req, "scale").f, 0)

\* C10: when scale is a positive number the target size is computed from
\* scale and the original size alone: whatever width and height accompany
\* it, resize is called with int(original_width * scale) and
\* int(original_height * scale), and no error comes from width or height.
C10_ScaleOverrides ==
    (Returned /\ ResizeAccepted /\ ScaleValid) =>
        LET size == OriginalSize(ImagePath(req).p)
            sc == Arg(req, "scale").f
        IN  /\ \A c \in CallsOf("resize") :
                  /\ sc.c = "fin"
                  /\ c.n = <<(size.w * sc.v) \div 10, (size.h * sc.v) \div 10>>
            /\ (sc.c = "fin" /\ EngineReached) => CallsOf("resize") # {}
            /\ response # <<>> =>
                  /\ response[1].tag \notin {"NoResize", "InvalidResize"}
                  /\ response[1].tag = "Exception" =>
                        response[1].arg[1] \in {"OSError", "engine", "OverflowError"}
            /\ env = NoFault => (response # <<>> /\
                  response[1].tag = (IF sc.c = "fin" THEN "Resized" ELSE "Exception"))

\* a call with a valid scale, a non-numeric width and a non-positive height
\* has been resized
C10_Witness ==
    /\ Returned /\ ResizeAccepted /\ ScaleValid
    /\ Arg(req, "width") = Text /\ Arg(req, "height") = Num(-10)
    /\ CallsOf("resize") # {}
    /\ Len(response) = 1 /\ response[1].tag = "Resized"

\* the numeric parameters the operation of the call reads
NumericParams ==
    CASE req.name = "binarize_image" -> {"threshold"}
      [] req.name = "convert_image_format" -> {"quality"}
      [] req.name = "resize_image" -> {"width", "height", "scale"}
      [] req.name = "blur_image" -> {"radius", "sigma"}
      [] req.name = "modify_colors" -> {"hue_shift", "brightness", "saturation"}
      [] OTHER -> {}

\* the raw value is absent, null, a finite number, or a value that is no
\* number at all
Benign(raw) == IsNone(raw) \/ raw.t = "text" \/ (Numeric(raw) /\ raw.f.c = "fin")

\* the call passed the validation of image_path (and of output_format), every
\* numeric parameter is benign and at least one of them is not a number; no
\* step outside the program fails
CoercionFails ==
    /\ Returned /\ env = NoFault /\ PathExists
    /\ req.name = "convert_image_format" => Truthy(req.output_format) /\ req.output_format.t = "str"
    /\ \A k \in NumericParams : Benign(Arg(req, k))
    /\ \E k \in NumericParams : Arg(req, k).t = "text"

\* C11: a non-numeric value of a numeric parameter is never surfaced: the
\* call returns no error block on its account, the engine is called, and
\* the parameter reaches the engine as its declared default.
C11_CoercionNeverSurfaced ==
    CoercionFails =>
        /\ Len(response) = 1
        /\ response[1].tag \notin {"InvalidResize", "Exception"}
        /\ req.name # "resize_image" => response[1].tag \in SuccessTags
        /\ (Arg(req, "threshold").t = "text") =>
              \A c \in CallsOf("threshold") : c.f[1] = Fin(ThresholdDefault)
        /\ (Arg(req, "quality").t = "text") =>
              \A c \in CallsOf("compression_quality") : c.n[1] = QualityDefault
        /\ (Arg(req, "radius").t = "text") =>
              \A c \in CallsOf("blur") : c.f[1] = Fin(RadiusDefault)
        /\ (Arg(req, "sigma").t = "text") =>
              \A c \in CallsOf("blur") : c.f[2] = Fin(SigmaDefault)
        /\ (Arg(req, "brightness").t = "text") =>
              \A c \in CallsOf("modulate") : c.f[1] = Fin(BrightnessDefault)
        /\ (Arg(req, "saturation").t = "text") =>
              \A c \in CallsOf("modulate") : c.f[2] = Fin(SaturationDefault)
        /\ (Arg(req, "hue_shift").t = "text") =>
              \A c \in CallsOf("modulate") : c.f[3] = Fin(36000)

\* what a JSON-encoded image_path holds: the path and the threshold of JsonPath
JsonDecode(p) ==
    IF p = JsonPath
    THEN [has |-> TRUE, image_path |-> PathB, threshold |-> Num(3)]
    ELSE [has |-> FALSE, image_path |-> p, threshold |-> Absent]

\* the first of the values that is present
FirstPresent(values) ==
    IF \E i \in 1..Len(values) : values[i].t # "absent"
    THEN values[CHOOSE i \in 1..Len(values) :
                    values[i].t # "absent" /\ \A j \in 1..(i - 1) : values[j].t = "absent"]
    ELSE Absent

\* the value of a parameter by the precedence nested sub-bag, JSON-encoded
\* image_path, direct field
ResolvedThreshold ==
    FirstPresent(<<req.nested.threshold, JsonDecode(ImagePath(req).p).threshold,
                   Arg(req, "threshold")>>)
ResolvedBrightness == FirstPresent(<<req.nested.brightness, Absent, Arg(req, "brightness")>>)
ResolvedPath == JsonDecode(ImagePath(req).p).image_path

\* C12: the value a handler uses follows the precedence nested sub-bag,
\* JSON-encoded image_path, direct field, default: a binarize_image or
\* modify_colors call whose image (found by that precedence) exists is
\* served, with the threshold or brightness found by that precedence.
\* Stated here for calls during which nothing outside the program fails.
C12_SourcePrecedence ==
    (/\ Returned /\ env = NoFault
     /\ ImagePath(req).t = "str" /\ Exists(fs, ResolvedPath)) =>
        /\ req.name = "binarize_image" =>
              /\ response = <<Block("Binarized", OutputPath(ResolvedPath, BinarizedSuffix))>>
              /\ \E c \in CallsOf("threshold") : c.f[1] = NormThreshold(ResolvedThreshold)
        /\ (req.name = "modify_colors" /\ Benign(Arg(req, "hue_shift"))
            /\ Benign(Arg(req, "saturation"))) =>
              \E c \in CallsOf("modulate") : c.f[1] = NormBrightness(ResolvedBrightness)

\* the suffix each operation puts before the extension
SuffixOf(name) ==
    CASE name = "binarize_image" -> BinarizedSuffix
      [] name = "blur_image" -> BlurredSuffix
      [] name = "grayscale_image" -> GrayscaleSuffix
      [] name = "resize_image" -> ResizedSuffix
      [] name = "modify_colors" -> ColorModifiedSuffix

SuffixOperations ==
    {"binarize_image", "blur_image", "grayscale_image", "resize_image", "modify_colors"}

\* out is path with suffix put before its extension: path is <dir/>stem.ext
\* with a non-empty stem, and out is <dir/>stem, the suffix, .ext
SuffixInserted(path, suffix, out) ==
    \E e \in 2..Len(path) :
        /\ path[e] = "." /\ path[e - 1] # "/"
        /\ \A i \in (e + 1)..Len(path) : path[i] \notin {".", "/"}
        /\ out = SubSeq(path, 1, e - 1) \o suffix \o SubSeq(path, e, Len(path))

\* C13: a successful binarize_image, blur_image, grayscale_image,
\* resize_image or modify_colors call writes exactly one file, at the input
\* path with the suffix of the operation put before the extension, and its
\* text block announces that path, whatever the other parameters and the
\* earlier calls were; binarize_image, blur_image and grayscale_image succeed
\* on every existing image when nothing outside the program fails.
C13_OutputPathDeterministic ==
    (Returned /\ req.name \in SuffixOperations) =>
        /\ (Len(response) = 1 /\ response[1].tag \in SuccessTags) =>
              /\ SuffixInserted(ImagePath(req).p, SuffixOf(req.name), response[1].arg)
              /\ written = {response[1].arg}
        /\ (env = NoFault /\ PathExists
            /\ req.name \in {"binarize_image", "blur_image", "grayscale_image"}) =>
              (Len(response) = 1 /\ response[1].tag \in SuccessTags)

\* modify_colors has written d/a_color_modified.png after an earlier call
\* has converted the same image to d/a.jpg
C13_Witness ==
    /\ Returned /\ req.name = "modify_colors" /\ ImagePath(req).p = PathA
    /\ Len(response) = 1 /\ response[1].tag = "ColorModified"
    /\ written = {<<"d", "/", "a">> \o ColorModifiedSuffix \o <<".", "p", "n", "g">>}
    /\ fs[PathC] = "output"

\* the output_format of the call as line 137 reads it
OutputFormat == IF req.bag = "dict" THEN req.output_format ELSE NoText

\* s with one leading dot removed
LeadingDotStripped(s) == IF s # <<>> /\ s[1] = "." THEN Tail(s) ELSE s

DotsOnly(s) == \A i \in 1..Len(s) : s[i] = "."

\* out is path with its extension replaced by a dot and the text that is
\* left of lowered when all dots at its two ends are removed
ExtensionReplaced(path, lowered, out) ==
    \E e \in 2..Len(path), i \in 1..(Len(lowered) + 1), j \in 0..Len(lowered) :
        /\ path[e] = "." /\ path[e - 1] # "/"
        /\ \A k \in (e + 1)..Len(path) : path[k] \notin {".", "/"}
        /\ i <= j + 1
        /\ DotsOnly(SubSeq(lowered, 1, i - 1)) /\ DotsOnly(SubSeq(lowered, j + 1, Len(lowered)))
        /\ i <= j => (lowered[i] # "." /\ lowered[j] # ".")
        /\ out = SubSeq(path, 1, e - 1) \o <<".">> \o SubSeq(lowered, i, j)

\* the quality of the call does not make int() overflow
QualityConverts ==
    ~(Arg(req, "quality").t = "float" /\ Arg(req, "quality").f.c \in {"inf", "ninf"})

CatalogNames == {ListTools[i].name : i \in 1..Len(ListTools)}
Descriptor(name) == ListTools[CHOOSE i \in 1..Len(ListTools) : ListTools[i].name = name]
Advertised(name, param) ==
    (CHOOSE q \in Descriptor(name).defaults : q[1] = param)[2]

\* the field of the call is absent from the argument bag
FieldAbsent(k) ==
    CASE k = "image_path" -> ImagePath(req).t = "absent"
      [] k = "output_format" -> OutputFormat.t = "absent"
      [] OTHER -> Arg(req, k).t = "absent"

\* the raw value is a finite number above 0
PositiveNumber(raw) == raw.t = "float" /\ raw.f.c = "fin" /\ raw.f.v > 0

\* the value the engine received for a parameter the call left absent
\* equals the advertised default
DefaultApplied(param, op, i) ==
    (Returned /\ req.name \in CatalogNames /\ param \in NumericParams
     /\ FieldAbsent(param)) =>
        \A c \in CallsOf(op) :
            CASE param = "quality" -> 10 * c.n[i] = Advertised(req.name, param).f.v
              [] param = "hue_shift" ->
                    c.f[i] = Fin(36000 + 100 * Advertised(req.name, param).f.v)
              [] OTHER -> c.f[i] = Advertised(req.name, param).f

ValidIn(raw, lo, hi) == Numeric(raw) /\ Within(raw.f, lo, hi)

\* the raw value is a finite number that is not negative
NonNegative(raw) == Numeric(raw) /\ raw.f.c = "fin" /\ raw.f.v >= 0

\* C16: parameters are normalized independently.  In blur_image a
\* non-numeric sigma gives sigma 3.0 and leaves a valid radius as given, and
\* a non-numeric radius gives radius 0.0 and leaves a valid sigma as given;
\* in modify_colors a non-numeric hue_shift, brightness or saturation leaves
\* the valid ones among the other two as given.
C16_IndependentNormalization ==
    Returned =>
        /\ \A c \in CallsOf("blur") :
              LET radius == Arg(req, "radius")
                  sigma == Arg(req, "sigma")
              IN  /\ (sigma.t = "text" /\ NonNegative(radius)) =>
                        c.f = <<radius.f, Fin(SigmaDefault)>>
                  /\ (radius.t = "text" /\ NonNegative(sigma)) =>
                        c.f = <<Fin(RadiusDefault), sigma.f>>
        /\ \A c \in CallsOf("modulate") :
              LET h == Arg(req, "hue_shift")
                  b == Arg(req, "brightness")
                  s == Arg(req, "saturation")
                  other == h.t = "text" \/ b.t = "text" \/ s.t = "text"
              IN  /\ (other /\ ValidIn(b, 0, 2000)) => c.f[1] = b.f
                  /\ (other /\ ValidIn(s, 0, 2000)) => c.f[2] = s.f
                  /\ (other /\ ValidIn(h, -3600, 3600)) => c.f[3] = Fin(36000 + 100 * h.f.v)

\* the blocks of the validation errors
ValidationTags == {"NoImagePath", "NotFound", "NoFormat", "NoResize", "InvalidResize", "UnknownTool"}

\* C17: no image handle is open once an invocation has ended, whichever way
\* it ended and whatever failed during it, nor between invocations; and an
\* invocation that ends in a validation error has opened no image at all.
C17_NoHandleLeftOpen ==
    /\ pc \in {"idle", "returned", "listed"} => handles = 0
    /\ (Returned /\ response # <<>> /\ response[1].tag \in ValidationTags) =>
          ("open_image" \notin access /\ calls = <<>>)

\* an invocation opened the image, the save step raised, and the call ended
\* in an error block
C17_Witness ==
    /\ Returned /\ env.fault = "save" /\ "open_image" \in access
    /\ Len(response) = 1 /\ response[1].tag = "Exception"
    /\ handles = 0

\* C18: no invocation writes the file it reads: the path of every file an
\* invocation wrote differs from its image_path, for the five operations
\* that insert a suffix and for convert_image_format alike; get_image_info
\* and every invocation that does not end in a success block write no file.
C18_InputNeverOverwritten ==
    Returned =>
        /\ ImagePath(req).t = "str" => ImagePath(req).p \notin written
        /\ (\/ req.name = "get_image_info"
            \/ response = <<>>
            \/ response[1].tag \notin SuccessTags) => written = {}

====
